---- MODULE Spec2Model ----
(***************************************************************************)
(* The "corpusv" task plug-in of PET: the corpus loader                    *)
(* (examples/corpusv_task_processor.py, class CorpusVDataProcessor) and    *)
(* the prompt definition (examples/corpusv_task_pvp.py, class MyTaskPVP),  *)
(* together with the two module-level registrations.                       *)
(*                                                                         *)
(* A call either returns a value or raises; both outcomes are values of    *)
(* the form [ok, exc, value].  Python lists are sequences, a dict is a     *)
(* function, None is the string "None" where a text is expected.           *)
(***************************************************************************)
EXTENDS Integers, Sequences, FiniteSets, TLC

(* ------------------------------ bounds --------------------------------- *)
\* longest file, in rows
MaxRows == 3
\* load calls remembered in one behaviour
MaxCalls == 3
\* largest finite cap (examples_per_label) tried; -1 is always tried
MaxCap == 2
\* largest skip_first tried
MaxSkip == 1
\* pattern ids tried are -1 .. MaxPatternId
MaxPatternId == 4

(* ------------------------- outcomes of a call -------------------------- *)
Return(v) == [ok |-> TRUE, exc |-> "", value |-> v]

Raise(e) == [ok |-> FALSE, exc |-> e, value |-> <<>>]

Range(s) == {s[i] : i \in DOMAIN s}

(* ------------------- corpusv_task_processor.py: tables ----------------- *)
TASK_NAME == "corpusv"

TRAIN_FILE_NAME == "cleaned_PHMRC_CQ_VAI_redacted_free_text.train.csv"

TEST_FILE_NAME == "cleaned_PHMRC_CQ_VAI_redacted_free_text.test.csv"

TEXT_A_COLUMN == 1

TEXT_B_COLUMN == -1

LABEL_COLUMN == 2

LABELS ==
    << "Pneumonia",
       "Maternal",
       "Other Injuries",
       "Bite of Venomous Animal",
       "Stillbirth",
       "Other Cancers",
       "Stroke",
       "Other Non-communicable Diseases",
       "Other Infectious Diseases",
       "Malaria",
       "Acute Myocardial Infarction",
       "Suicide",
       "Cervical Cancer",
       "Preterm Delivery",
       "Other Cardiovascular Diseases",
       "Congenital malformation",
       "Sepsis",
       "AIDS",
       "Road Traffic",
       "Cirrhosis",
       "Falls",
       "Diarrhea/Dysentery",
       "Leukemia/Lymphomas",
       "Renal Failure",
       "Fires",
       "Diabetes",
       "Birth asphyxia",
       "Poisonings",
       "TB",
       "Other Defined Causes of Child Deaths",
       "Meningitis",
       "COPD",
       "Drowning",
       "Colorectal Cancer",
       "Other Digestive Diseases",
       "Measles",
       "Homicide",
       "Breast Cancer",
       "Hemorrhagic fever",
       "Encephalitis",
       "Epilepsy",
       "Lung Cancer",
       "Violent Death",
       "Prostate Cancer",
       "Stomach Cancer",
       "Esophageal Cancer",
       "Meningitis/Sepsis",
       "Asthma" >>

VERBALIZER ==
    ("Pneumonia" :> << "pneumonia", "cold", "cough", "fever" >>)
    @@ ("Maternal" :> << "baby", "child", "pregnant", "delivery", "vagina", "cervix" >>)
    @@ ("Other Injuries" :> << "electric", "fell", "iron", "dynamite", "gas", "lightning" >>)
    @@ ("Bite of Venomous Animal" :> << "bite", "snake", "bit", "poison", "bitten" >>)
    @@ ("Stillbirth" :> << "womb", "labor", "delivery" >>)
    @@ ("Other Cancers" :> << "cancer", "chemotherapy", "marrow", "platelet", "leukemia" >>)
    @@ ("Stroke" :> << "attack", "stroke", "paralysis", "brain", "bp" >>)
    @@ ("Other Non-communicable Diseases" :> << "cancer", "perforation", "appendectomy", "chemotherapy" >>)
    @@ ("Other Infectious Diseases" :> << "infection", "fever", "typhoid" >>)
    @@ ("Malaria" :> << "malaria" >>)
    @@ ("Acute Myocardial Infarction" :> << "heart", "attack", "pressure", "ecg" >>)
    @@ ("Suicide" :> << "suicide", "poison", "stress", "hanged", "kerosene", "burnt", "immolated", "mentally" >>)
    @@ ("Cervical Cancer" :> << "cervical", "uterus", "vaginal" >>)
    @@ ("Preterm Delivery" :> << "preterm", "delivery", "baby", "born", "pregnancy" >>)
    @@ ("Other Cardiovascular Diseases" :> << "heart", "cardiovascular", "chest" >>)
    @@ ("Congenital malformation" :> << "malformation", "baby", "child", "problem", "develop", "disability", "abnormal", "hydrocephalus" >>)
    @@ ("Sepsis" :> << "sepsis", "swine", "flu", "bacteria", "brain" >>)
    @@ ("AIDS" :> << "aids", "hiv", "viral" >>)
    @@ ("Road Traffic" :> << "road", "accident", "motorcycle", "bus", "bicycle", "car", "vehicle", "hit", "truck" >>)
    @@ ("Cirrhosis" :> << "cirrhosis", "liver", "jaundice" >>)
    @@ ("Falls" :> << "fall", "fell", "fracture", "roof", "tree", "height" >>)
    @@ ("Diarrhea/Dysentery" :> << "motions", "vomit", "diarrhea", "dysentery", "bowel", "stool" >>)
    @@ ("Leukemia/Lymphomas" :> << "leukemia", "lymphoma", "lymphnodes", "petechiae" >>)
    @@ ("Renal Failure" :> << "kidney", "dialysis", "excrete", "urinate" >>)
    @@ ("Fires" :> << "burnt", "electric", "fire", "kerosene", "burned", "explode", "blisters", "gasoline" >>)
    @@ ("Diabetes" :> << "sugar", "diabetes" >>)
    @@ ("Birth asphyxia" :> << "asphyxia" >>)
    @@ ("Poisonings" :> << "consumed", "drank", "poison", "poisonous", "foam", "inhale", "chemicals", "petrol", "pesticide" >>)
    @@ ("TB" :> << "tb", "tuberculosis", "t.b", "lung" >>)
    @@ ("Other Defined Causes of Child Deaths" :> << "baby", "child", "born" >>)
    @@ ("Meningitis" :> << "baby", "child", "head", "brain", "fever", "meningitis" >>)
    @@ ("COPD" :> << "copd", "bar" >>)
    @@ ("Drowning" :> << "water", "drown", "lake", "drawn", "slip", "river", "flood", "ocean", "sea", "swim", "pond" >>)
    @@ ("Colorectal Cancer" :> << "stomach", "colon", "bowel", "ileostomy", "endoscopy", "colostomy" >>)
    @@ ("Other Digestive Diseases" :> << "stomach", "intestine", "appendix", "stomachache", "peritonitis" >>)
    @@ ("Measles" :> << "measles", "rashes", "pox" >>)
    @@ ("Homicide" :> << "shoot", "shot", "victim", "wound", "kerosene", "fire", "cops", "gun", "aggressor", "stab", "killed", "thief", "thieves" >>)
    @@ ("Breast Cancer" :> << "breast", "nodes", "mammogram", "noctal" >>)
    @@ ("Hemorrhagic fever" :> << "dengue", "fever", "rashes", "scars" >>)
    @@ ("Encephalitis" :> << "brain", "pus", "grub" >>)
    @@ ("Epilepsy" :> << "epilepsy", "convulsions", "seizure" >>)
    @@ ("Lung Cancer" :> << "lung", "smoking", "ct", "chest", "diaphragm" >>)
    @@ ("Violent Death" :> << "killed", "police", "injuries", "murdered", "suicide", "attacked", "hanged", "scold", "axe", "bomb", "explosion" >>)
    @@ ("Prostate Cancer" :> << "prostate", "bladder", "carcinoma", "urinary" >>)
    @@ ("Stomach Cancer" :> << "stomach", "gastritis", "endoscopy" >>)
    @@ ("Esophageal Cancer" :> << "esophagus", "cancer", "swallowing", "endoscopy" >>)
    @@ ("Meningitis/Sepsis" :> << "infection", "septicaemia" >>)
    @@ ("Asthma" :> << "asthma", "attack", "lungs", "dust", "nebulization", "dyspnea" >>)

(* ------------- corpusv_task_processor.py: name resolution -------------- *)
\* The names bound in the module's global namespace: the imports of lines
\* 19-24 and the class statement of line 27.
ProcessorGlobals ==
    { "csv", "os", "List", "Union", "DataProcessor", "LimitedExampleList",
      "PROCESSORS", "InputExample", "CorpusVDataProcessor" }

\* The name by which the methods and the registration statement refer to
\* the loader class (lines 110, 123, 128, 139-141, 151).
LoaderClassRef == "MyTaskDataProcessor"

\* Python's lookup of a global name: the object bound to it, or NameError.
Lookup(name) ==
    IF name \in ProcessorGlobals THEN Return(name) ELSE Raise("NameError")

(* ---------------- the framework's Example and collection --------------- *)
InputExample(guid, text_a, text_b, label) ==
    [guid |-> guid, text_a |-> text_a, text_b |-> text_b, label |-> label]

\* examples_per_label is a single integer or a per-label list.
IntCap(n) == [isList |-> FALSE, n |-> n, caps |-> <<>>]

ListCap(l) == [isList |-> TRUE, n |-> 0, caps |-> l]

\* The cap of the label at position i of the label list.
CapAt(max_examples, i) ==
    IF max_examples.isList THEN max_examples.caps[i] ELSE max_examples.n

\* LimitedExampleList(labels, max_examples, skip_first): per-label counters
\* of the examples accepted and of the examples skipped, all zero.
LimitedExampleList(labels, max_examples, skip_first) ==
    [ labels     |-> labels,
      examples   |-> <<>>,
      max        |-> [l \in Range(labels) |->
                        CapAt(max_examples,
                              CHOOSE i \in DOMAIN labels : labels[i] = l)],
      accepted   |-> [l \in Range(labels) |-> 0],
      skipped    |-> [l \in Range(labels) |-> 0],
      skip_first |-> skip_first ]

\* A label is open while its cap is unlimited or not yet reached.
LabelOpen(lst, l) == lst.max[l] < 0 \/ lst.accepted[l] < lst.max[l]

\* is_full(): every label has reached its cap.
is_full(lst) == \A l \in Range(lst.labels) : ~LabelOpen(lst, l)

\* add(example): a label outside the label set is an error; the first
\* skip_first examples of an open label are discarded; after that the
\* example is accepted while the label is open.
add(lst, example) ==
    LET l == example.label IN
    IF l \notin Range(lst.labels) THEN Raise("KeyError")
    ELSE IF ~LabelOpen(lst, l) THEN Return(lst)
    ELSE IF lst.skipped[l] < lst.skip_first
         THEN Return([lst EXCEPT !.skipped[l] = @ + 1])
    ELSE Return([lst EXCEPT !.accepted[l] = @ + 1,
                            !.examples = Append(@, example)])

(* --------------- corpusv_task_processor.py: the methods ---------------- *)
\* get_labels (lines 126-128).
get_labels ==
    IF Lookup(LoaderClassRef).ok THEN Return(LABELS) ELSE Raise("NameError")

\* row[col] for a non-negative column (Python indexes from 0).
Column(row, col) ==
    IF col < Len(row) THEN Return(row[col + 1]) ELSE Raise("IndexError")

\* "%s-%s" % (set_type, idx)
Guid(set_type, idx) == set_type \o "-" \o ToString(idx)

\* One outcome of the loop: the value returned or the error raised, and
\* the number of rows taken from the reader.
Outcome(res, read) == [ok |-> res.ok, exc |-> res.exc, value |-> res.value,
                       read |-> read]

\* The loop of lines 136-146 from row number idx (counted from 0) on.
RECURSIVE ReadRows(_, _, _, _)
ReadRows(rows, idx, set_type, lst) ==
    IF idx >= Len(rows) THEN Outcome(Return(lst.examples), idx)
    ELSE
      LET row    == rows[idx + 1]
          guid   == Guid(set_type, idx)
          label  == Column(row, LABEL_COLUMN)
          text_a == Column(row, TEXT_A_COLUMN)
          text_b == IF TEXT_B_COLUMN >= 0 THEN Column(row, TEXT_B_COLUMN)
                    ELSE Return("None")
      IN
      IF ~Lookup(LoaderClassRef).ok THEN Outcome(Raise("NameError"), idx + 1)
      ELSE IF ~label.ok THEN Outcome(label, idx + 1)
      ELSE IF ~text_a.ok THEN Outcome(text_a, idx + 1)
      ELSE IF ~text_b.ok THEN Outcome(text_b, idx + 1)
      ELSE
        LET added == add(lst, InputExample(guid, text_a.value, text_b.value,
                                           label.value))
        IN
        IF ~added.ok THEN Outcome(added, idx + 1)
        ELSE IF is_full(added.value)
             THEN Outcome(Return(added.value.examples), idx + 1)
        ELSE ReadRows(rows, idx + 1, set_type, added.value)

\* _create_examples (lines 130-147); rows is what csv.reader yields for the
\* file at path.
create_examples(rows, set_type, max_examples, skip_first) ==
    LET labels == get_labels IN
    IF ~labels.ok THEN Outcome(labels, 0)
    ELSE ReadRows(rows, 0, set_type,
                  LimitedExampleList(labels.value, max_examples, skip_first))

\* get_train_examples (lines 100-111): the path argument is evaluated
\* before _create_examples is entered.
get_train_examples(data_dir, examples_per_label, skip_first) ==
    IF ~Lookup(LoaderClassRef).ok THEN Outcome(Raise("NameError"), 0)
    ELSE create_examples(data_dir[TRAIN_FILE_NAME], "train",
                         examples_per_label, skip_first)

\* get_dev_examples (lines 113-124).
get_dev_examples(data_dir, examples_per_label, skip_first) ==
    IF ~Lookup(LoaderClassRef).ok THEN Outcome(Raise("NameError"), 0)
    ELSE create_examples(data_dir[TEST_FILE_NAME], "test",
                         examples_per_label, skip_first)

(* ---------------------- the framework's PVP base ----------------------- *)
\* An element of a rendered sequence is a string or a (string, flag) pair;
\* both are written as a pair here, a plain string with the flag FALSE.
Plain(s) == <<s, FALSE>>

\* The tokenizer's mask token, self.mask.
MaskToken == "[MASK]"

mask == Plain(MaskToken)

\* self.shortenable(s): the text marked as truncatable.
shortenable(s) == <<s, TRUE>>

(* ---------------- corpusv_task_pvp.py: the methods --------------------- *)
PVP_TASK_NAME == "corpusv"

\* The four patterns (lines 101-108), each a pair of sequences.
Pattern0(text) ==
    << << Plain("the death wa caused by"), mask, Plain("."), text >>, << >> >>

Pattern1(text) ==
    << << text, Plain("the deceased had suffered from"), mask, Plain(".") >>,
       << >> >>

Pattern2(text) == << << Plain("Just"), mask, Plain("!") >>, << text >> >>

Pattern3(text) ==
    << << text >>, << Plain("deceased died"), mask, Plain(".") >> >>

\* An else branch missing: every other pattern id renders as pattern 3.
get_parts_no_else(pattern_id, example) ==
    LET text == shortenable(example.text_a) IN
    IF pattern_id = 0 THEN Return(Pattern0(text))
    ELSE IF pattern_id = 1 THEN Return(Pattern1(text))
    ELSE IF pattern_id = 2 THEN Return(Pattern2(text))
    ELSE Return(Pattern3(text))

\* The text passed on without the shortenable mark.
get_parts_unmarked(pattern_id, example) ==
    LET text == Plain(example.text_a) IN
    IF pattern_id = 0 THEN Return(Pattern0(text))
    ELSE IF pattern_id = 1 THEN Return(Pattern1(text))
    ELSE IF pattern_id = 2 THEN Return(Pattern2(text))
    ELSE IF pattern_id = 3 THEN Return(Pattern3(text))
    ELSE Raise("ValueError")

\* get_parts (lines 88-110) of a PVP constructed with pattern_id.
get_parts(pattern_id, example) ==
    LET text == shortenable(example.text_a) IN
    IF pattern_id = 0 THEN Return(Pattern0(text))
    ELSE IF pattern_id = 1 THEN Return(Pattern1(text))
    ELSE IF pattern_id = 2 THEN Return(Pattern2(text))
    ELSE IF pattern_id = 3 THEN Return(Pattern3(text))
    ELSE Raise("ValueError")

\* A lookup with a default, VERBALIZER.get(label, []).
verbalize_get(label) ==
    IF label \in DOMAIN VERBALIZER THEN Return(VERBALIZER[label])
    ELSE Return(<< >>)

\* verbalize (lines 112-113): a dict subscription.
verbalize(label) ==
    IF label \in DOMAIN VERBALIZER THEN Return(VERBALIZER[label])
    ELSE Raise("KeyError")

(* ------------------------------ inputs --------------------------------- *)
\* Labels a row of a file may carry: two of the label set and one outside.
FileLabels == {"Pneumonia", "Malaria", "Unknown"}

Texts == << "text A", "text B", "text C", "text D" >>

TextAt(i) == IF i <= Len(Texts) THEN Texts[i] ELSE "text"

\* The rows a file may hold at position i (from 1): three columns with any
\* of the labels, or a row cut short after the text column.
RowsAt(i) ==
    { << Guid("train", i - 1), TextAt(i), l >> : l \in FileLabels }
      \cup { << Guid("train", i - 1), TextAt(i) >> }

AllRows == UNION { RowsAt(i) : i \in 1..MaxRows }

Files ==
    UNION { { f \in [1..n -> AllRows] : \A i \in 1..n : f[i] \in RowsAt(i) }
            : n \in 0..MaxRows }

\* A per-label list giving the cap a to "Pneumonia" and b to the others.
PerLabel(a, b) ==
    [i \in DOMAIN LABELS |-> IF LABELS[i] = "Pneumonia" THEN a ELSE b]

Caps == { IntCap(n) : n \in -1..MaxCap } \cup { ListCap(PerLabel(1, 0)) }

Skips == 0..MaxSkip

PatternIds == -1..MaxPatternId

\* Primary texts of the examples rendered; among them the mask token and a
\* string equal to a fixed part of the patterns.
RenderTexts == { "text A", "", ".", MaskToken }

\* Labels looked up: the label set, every key of the table, and others.
VerbalizeLabels ==
    Range(LABELS) \cup DOMAIN VERBALIZER \cup {"Unknown", "pneumonia", ""}

(* ------------------------------- state --------------------------------- *)
VARIABLES
    modules,      \* per module: "unloaded", "loaded" or "failed"
    PROCESSORS,   \* tasks.PROCESSORS: task name -> loader class
    PVPS,         \* preprocessor.PVPS: task name -> prompt definition class
    data_dir,     \* file name -> the rows of the file
    calls,        \* the load calls made so far, with their outcomes
    rendered,     \* the last get_parts call: <<pattern_id, text_a, outcome>>
    verbalized    \* the last verbalize call: <<label, outcome>>

vars == << modules, PROCESSORS, PVPS, data_dir, calls, rendered, verbalized >>

loaderVars == << data_dir, calls >>

pvpVars == << rendered, verbalized >>

EmptyRegistry == [name \in {} |-> ""]

\* Nothing imported, nothing called yet; the directory holds the two files.
InitWith(files) ==
    /\ modules = [processor |-> "unloaded", pvp |-> "unloaded"]
    /\ PROCESSORS = EmptyRegistry
    /\ PVPS = EmptyRegistry
    /\ \E f \in files :
          data_dir = (TRAIN_FILE_NAME :> f) @@ (TEST_FILE_NAME :> f)
    /\ calls = << >>
    /\ rendered = << >>
    /\ verbalized = << >>

Init == InitWith(Files)

\* The prompt definition reads no file: one directory, of empty files.
InitPVP == InitWith({ << >> })

(* ------------------------------ actions -------------------------------- *)
\* Executing corpusv_task_processor.py: the class statement, then the
\* registration of line 151, whose right-hand side is evaluated first.
ImportProcessor ==
    /\ modules.processor # "loaded"
    /\ LET cls == Lookup(LoaderClassRef) IN
       IF cls.ok
         THEN /\ PROCESSORS' = (TASK_NAME :> cls.value) @@ PROCESSORS
              /\ modules' = [modules EXCEPT !.processor = "loaded"]
         ELSE /\ PROCESSORS' = PROCESSORS
              /\ modules' = [modules EXCEPT !.processor = "failed"]
    /\ UNCHANGED << PVPS, loaderVars, pvpVars >>

\* Executing corpusv_task_pvp.py: the class statement, then line 117.
ImportPVP ==
    /\ modules.pvp # "loaded"
    /\ PVPS' = (PVP_TASK_NAME :> "MyTaskPVP") @@ PVPS
    /\ modules' = [modules EXCEPT !.pvp = "loaded"]
    /\ UNCHANGED << PROCESSORS, loaderVars, pvpVars >>

Call(set_type, cap, skip, outcome) ==
    [set_type |-> set_type, examples_per_label |-> cap, skip_first |-> skip,
     outcome |-> outcome]

\* A call of get_train_examples on an instance of the class that the class
\* statement (lines 27-147) has created; the method resolves its global
\* names in the namespace of the module.
GetTrainExamples ==
    /\ modules.processor # "unloaded"
    /\ Len(calls) < MaxCalls
    /\ \E cap \in Caps, skip \in Skips :
          calls' = Append(calls, Call("train", cap, skip,
                                      get_train_examples(data_dir, cap, skip)))
    /\ UNCHANGED << modules, PROCESSORS, PVPS, data_dir, pvpVars >>

\* A call of get_dev_examples.
GetDevExamples ==
    /\ modules.processor # "unloaded"
    /\ Len(calls) < MaxCalls
    /\ \E cap \in Caps, skip \in Skips :
          calls' = Append(calls, Call("test", cap, skip,
                                      get_dev_examples(data_dir, cap, skip)))
    /\ UNCHANGED << modules, PROCESSORS, PVPS, data_dir, pvpVars >>

\* A call of get_parts on a MyTaskPVP constructed with some pattern id.
GetParts ==
    /\ modules.pvp = "loaded"
    /\ \E p \in PatternIds, t \in RenderTexts :
          rendered' = << << p, t,
                            get_parts(p, InputExample("train-0", t, "None",
                                                      "Pneumonia")) >> >>
    /\ UNCHANGED << modules, PROCESSORS, PVPS, loaderVars, verbalized >>

\* A call of verbalize.
Verbalize ==
    /\ modules.pvp = "loaded"
    /\ \E l \in VerbalizeLabels :
          verbalized' = << << l, verbalize(l) >> >>
    /\ UNCHANGED << modules, PROCESSORS, PVPS, loaderVars, rendered >>

NextLoader == ImportProcessor \/ GetTrainExamples \/ GetDevExamples

NextPVP == ImportProcessor \/ ImportPVP \/ GetParts \/ Verbalize

Next ==
    \/ ImportProcessor
    \/ ImportPVP
    \/ GetTrainExamples
    \/ GetDevExamples
    \/ GetParts
    \/ Verbalize

Spec == Init /\ [][Next]_vars

\* The loader alone, and the prompt definition with the two registrations
\* alone: the two components share no variable.
SpecLoader == Init /\ [][NextLoader]_vars

SpecPVP == InitPVP /\ [][NextPVP]_vars

(* ===================== the prompt definition =========================== *)
\* The two sequences of a rendering, one after the other.
AllParts(parts) == parts[1] \o parts[2]

\* How often the element e occurs in the sequence s.
Count(s, e) == Cardinality({ i \in DOMAIN s : s[i] = e })

\* C4: for each pattern id in 0..3, get_parts returns two sequences that
\* together hold the mask marker exactly once and exactly one shortenable
\* span, which is the example's primary text.
C4_OneMaskOneShortenableText ==
    \A i \in DOMAIN rendered :
       LET p == rendered[i][1]
           t == rendered[i][2]
           r == rendered[i][3]
       IN  p \in 0..3 =>
             /\ r.ok
             /\ Len(r.value) = 2
             /\ Count(AllParts(r.value), mask) = 1
             /\ Count(AllParts(r.value), shortenable(t)) = 1
             /\ Cardinality({ k \in DOMAIN AllParts(r.value) :
                                AllParts(r.value)[k][2] }) = 1

\* Pattern 2 rendered: the mask in the first sequence, the text in the second.
C4_Witness ==
    /\ rendered # << >>
    /\ rendered[1][1] = 2
    /\ rendered[1][2] = MaskToken
    /\ rendered[1][3].ok
    /\ rendered[1][3].value[2] = << shortenable(MaskToken) >>

\* C5: verbalize returns a non-empty token list for every label of LABELS
\* and fails with KeyError for every other label; the keys of VERBALIZER are
\* exactly the labels of LABELS.
C5_VerbalizerCoversLabels ==
    /\ DOMAIN VERBALIZER = Range(LABELS)
    /\ \A i \in DOMAIN verbalized :
          LET l == verbalized[i][1]
              r == verbalized[i][2]
          IN  /\ l \in Range(LABELS) => r.ok /\ Len(r.value) > 0
              /\ l \notin Range(LABELS) => ~r.ok /\ r.exc = "KeyError"

\* The last label of the table looked up.
C5_Witness ==
    /\ verbalized # << >>
    /\ verbalized[1][1] = "Asthma"
    /\ verbalized[1][2].ok
    /\ Len(verbalized[1][2].value) = 6

\* C7: with a pattern id outside 0..3, get_parts raises ValueError and
\* returns nothing, whatever the example.
C7_UnknownPatternRaises ==
    \A i \in DOMAIN rendered :
       rendered[i][1] \notin 0..3 =>
          /\ ~rendered[i][3].ok
          /\ rendered[i][3].exc = "ValueError"
          /\ rendered[i][3].value = << >>

\* Pattern id 4 asked for.
C7_Witness ==
    /\ rendered # << >>
    /\ rendered[1][1] = 4
    /\ rendered[1][3].exc = "ValueError"

(* ========================= the registrations =========================== *)
\* C8: once both modules have been executed, the task name is a key of
\* PROCESSORS and of PVPS, the same key in both.
C8_RegisteredInBothRegistries ==
    (modules.processor # "unloaded" /\ modules.pvp # "unloaded") =>
       /\ TASK_NAME = PVP_TASK_NAME
       /\ TASK_NAME \in DOMAIN PROCESSORS
       /\ PVP_TASK_NAME \in DOMAIN PVPS

(* ============================ the loader =============================== *)
\* The file a call reads.
FileOf(c) ==
    data_dir[IF c.set_type = "train" THEN TRAIN_FILE_NAME ELSE TEST_FILE_NAME]

\* Every row has a label column and its label is in the label set.
WellFormed(rows) ==
    \A i \in DOMAIN rows :
       /\ Len(rows[i]) > LABEL_COLUMN
       /\ rows[i][LABEL_COLUMN + 1] \in Range(LABELS)

LabelOfRow(row) == row[LABEL_COLUMN + 1]

\* The cap examples_per_label gives to the label l of the label set.
CapOf(cap, l) == CapAt(cap, CHOOSE i \in DOMAIN LABELS : LABELS[i] = l)

Unlimited(cap) == \A i \in DOMAIN LABELS : CapAt(cap, i) < 0

\* The example made of row i (from 1) of a file.
ExampleOf(rows, set_type, i) ==
    InputExample(Guid(set_type, i - 1), rows[i][TEXT_A_COLUMN + 1], "None",
                 LabelOfRow(rows[i]))

\* Row i is the Occurrence(rows, i)-th row of the file with its label.
Occurrence(rows, i) ==
    Cardinality({ j \in 1..i : LabelOfRow(rows[j]) = LabelOfRow(rows[i]) })

\* The rows the skip/cap rule keeps: for each label its occurrences number
\* skip+1 up to skip+cap, all after the skip-th when the cap is unlimited.
Selected(rows, cap, skip) ==
    { i \in DOMAIN rows :
        /\ Occurrence(rows, i) > skip
        /\ \/ CapOf(cap, LabelOfRow(rows[i])) < 0
           \/ Occurrence(rows, i) <= skip + CapOf(cap, LabelOfRow(rows[i])) }

\* Every row of the file streamed through the skip/cap rule, in file order.
Streamed(rows, set_type, cap, skip) ==
    LET kept == SelectSeq([i \in 1..Len(rows) |-> i],
                          LAMBDA i : i \in Selected(rows, cap, skip))
    IN  [k \in DOMAIN kept |-> ExampleOf(rows, set_type, kept[k])]

\* All labels have reached their caps once the first n rows are streamed.
AllCappedAfter(rows, cap, skip, n) ==
    \A l \in Range(LABELS) :
       /\ CapOf(cap, l) >= 0
       /\ Cardinality({ i \in Selected(rows, cap, skip) :
                          i <= n /\ LabelOfRow(rows[i]) = l }) = CapOf(cap, l)

\* The number of rows read when reading stops as soon as all labels are
\* capped.
StopPoint(rows, cap, skip) ==
    LET stops == { n \in 0..Len(rows) : AllCappedAfter(rows, cap, skip, n) }
    IN  IF stops = {} THEN Len(rows)
        ELSE CHOOSE n \in stops : \A m \in stops : n <= m

\* The file of the scenario and the two examples it is to yield.
ScenarioFile ==
    << << "train-0", "text A", "Pneumonia" >>,
       << "train-1", "text B", "Malaria" >>,
       << "train-2", "text C", "Pneumonia" >> >>

ScenarioExamples(set_type) ==
    << InputExample(Guid(set_type, 0), "text A", "None", "Pneumonia"),
       InputExample(Guid(set_type, 1), "text B", "None", "Malaria") >>

\* C1: on a file whose rows all carry a label of the label set, load
\* returns a list of examples with labels of the label set, at most cap of
\* them per label, every row when the cap is -1 and skip_first is 0, and for
\* the rows (Pneumonia, Malaria, Pneumonia) with cap 1 the first two rows.
C1_LoadRespectsCaps ==
    \A k \in DOMAIN calls :
       LET c    == calls[k]
           rows == FileOf(c)
           cap  == c.examples_per_label
           r    == c.outcome
       IN  WellFormed(rows) =>
             /\ r.ok
             /\ \A e \in Range(r.value) : e.label \in Range(LABELS)
             /\ \A l \in Range(LABELS) :
                   CapOf(cap, l) >= 0 =>
                      Cardinality({ i \in DOMAIN r.value :
                                      r.value[i].label = l }) <= CapOf(cap, l)
             /\ (Unlimited(cap) /\ c.skip_first = 0) =>
                   r.value = [i \in DOMAIN rows |->
                                ExampleOf(rows, c.set_type, i)]
             /\ (rows = ScenarioFile /\ cap = IntCap(1) /\ c.skip_first = 0)
                   => r.value = ScenarioExamples(c.set_type)

\* C2: with skip_first = k > 0 load returns, for each label, exactly its
\* occurrences number k+1 up to k+cap in file order, and nothing for a label
\* with fewer than k occurrences.
C2_SkipFirstDiscardsPerLabel ==
    \A k \in DOMAIN calls :
       LET c    == calls[k]
           rows == FileOf(c)
       IN  (WellFormed(rows) /\ c.skip_first > 0) =>
             /\ c.outcome.ok
             /\ c.outcome.value =
                  Streamed(rows, c.set_type, c.examples_per_label,
                           c.skip_first)

\* C3: the examples of load(n, skip 0) and of load(m, skip n) share no id
\* and together are the examples of load(n + m, skip 0).
C3_CarvingIsDisjoint ==
    \A i, j, k \in DOMAIN calls :
       LET a == calls[i]
           b == calls[j]
           c == calls[k]
           n == a.examples_per_label.n
           m == b.examples_per_label.n
       IN  ( /\ WellFormed(FileOf(a))
             /\ a.set_type = b.set_type /\ b.set_type = c.set_type
             /\ ~a.examples_per_label.isList /\ n >= 0
             /\ ~b.examples_per_label.isList /\ m >= 0
             /\ a.skip_first = 0
             /\ b.skip_first = n
             /\ c.examples_per_label = IntCap(n + m)
             /\ c.skip_first = 0 )
           => /\ a.outcome.ok /\ b.outcome.ok /\ c.outcome.ok
              /\ { e.guid : e \in Range(a.outcome.value) }
                   \cap { e.guid : e \in Range(b.outcome.value) } = {}
              /\ Range(a.outcome.value) \cup Range(b.outcome.value)
                   = Range(c.outcome.value)

\* C9: two calls of load on the same file with the same partition,
\* examples_per_label and skip_first return the same list of examples,
\* whatever calls were made in between.
C9_LoadIsDeterministic ==
    \A i, j \in DOMAIN calls :
       LET a == calls[i]
           b == calls[j]
       IN  ( /\ i < j
             /\ WellFormed(FileOf(a))
             /\ a.set_type = b.set_type
             /\ a.examples_per_label = b.examples_per_label
             /\ a.skip_first = b.skip_first )
           => /\ a.outcome.ok /\ b.outcome.ok
              /\ a.outcome.value = b.outcome.value

\* C10: load reads no row after all labels have reached their caps (none at
\* all when they have before the first row), reads to the end with an
\* unlimited cap, and returns what streaming every row would return.
C10_StopsWhenAllCapped ==
    \A k \in DOMAIN calls :
       LET c    == calls[k]
           rows == FileOf(c)
           cap  == c.examples_per_label
       IN  WellFormed(rows) =>
             /\ c.outcome.ok
             /\ c.outcome.read = StopPoint(rows, cap, c.skip_first)
             /\ c.outcome.value =
                  Streamed(rows, c.set_type, cap, c.skip_first)

====
